---- MODULE Spec2Model ----
(***************************************************************************)
(* A state-machine model of the virtual machine of src/VM.cpp: the RAM,    *)
(* the disk file, and the CPU with its fetch-decode-execute loop.          *)
(*                                                                         *)
(* One step of the model is one turn of the loop of CPU::execute: the      *)
(* fetch of the instruction byte, the decode, and the whole case of the    *)
(* switch, operand fetches included.                                       *)
(***************************************************************************)
EXTENDS Integers, Sequences, FiniteSets, TLC

VARIABLES
    regs,      \* CPU::regs, the register file R0..R3
    pc,        \* CPU::pc, uint16_t
    sp,        \* CPU::sp, uint8_t
    zf,        \* CPU::zf
    running,   \* CPU::running
    memory,    \* RAM::memory, kept as the map of its non-zero bytes
    disk,      \* the bytes of the disk file, kept as the map of the non-zero ones
    consumed,  \* the tokens IN has read from std::cin, oldest first
    output,    \* the values OUT has printed to std::cout, oldest first
    calls,     \* how many times the host has called CPU::execute
    steps,     \* how many instructions have been executed (bounds the runs)
    written,   \* history: for each disk address, the byte DISK_WRITE last gave it
    last,      \* history: the instruction executed last
    prev,      \* history: the instruction executed before it
    wreg       \* history: the register written last, -1 before any write

vars == <<regs, pc, sp, zf, running, memory, disk, consumed, output,
          calls, steps, written, last, prev, wreg>>

-----------------------------------------------------------------------------
(* Bounds of the model. *)

MaxSteps == 4
MaxCalls == 2
MaxGarbage == 1

-----------------------------------------------------------------------------
(* Widths. *)

\* RAM_SIZE and DISK_SIZE
RAM_SIZE == 20 * 1024 * 1024
DISK_SIZE == 100 * 1024 * 1024

Bytes == 0 .. 255
RegIdx == 0 .. 3

\* a variant of Wrap8 that saturates instead of wrapping
Wrap8_saturating(x) == IF x > 255 THEN 255 ELSE IF x < 0 THEN 0 ELSE x

\* uint8_t arithmetic: sp--, ++sp, res & 0xFF, val & 0xFF
Wrap8(x) == x % 256
\* a variant of Wrap16 for a program counter wider than 16 bits
Wrap16_nowrap(x) == x

\* uint16_t arithmetic: pc++
Wrap16(x) == x % 65536

-----------------------------------------------------------------------------
(* The two stores.  A store is the map of its non-zero bytes: both are     *)
(* zero-filled when created, so an address outside the map holds 0.        *)

Zeroed == [a \in {} |-> 0]

StoreRead(m, addr) == IF addr \in DOMAIN m THEN m[addr] ELSE 0

StoreWrite(m, addr, value) ==
    IF value = 0
    THEN [a \in DOMAIN m \ {addr} |-> m[a]]
    ELSE [a \in DOMAIN m \cup {addr} |-> IF a = addr THEN value ELSE m[a]]

\* RAM::read
RamRead(m, addr) == StoreRead(m, addr)
\* RAM::write
RamWrite(m, addr, value) == StoreWrite(m, addr, value)
\* Disk::read: seekg(addr), read one byte
DiskRead(d, addr) == StoreRead(d, addr)
\* a variant of DiskWrite whose byte never reaches the file
DiskWrite_lost(d, addr, value) == d

\* Disk::write: seekp(addr), write one byte, flush
DiskWrite(d, addr, value) == StoreWrite(d, addr, value)

-----------------------------------------------------------------------------
(* CPU helpers. *)

\* CPU::fetch: ram.read(pc++)
fetch(m, p) == [val |-> RamRead(m, p), pc |-> Wrap16(p + 1), addr |-> p]

\* a variant of push that decrements before it writes: ram.write(--sp, val)
push_predecrement(m, s, val) ==
    [memory |-> RamWrite(m, Wrap8(s + 255), val), sp |-> Wrap8(s + 255),
     addr |-> Wrap8(s + 255)]

\* a variant of push that keeps the stack in the page above, at 0x100 + sp
push_pageone(m, s, val) ==
    [memory |-> RamWrite(m, 256 + s, val), sp |-> Wrap8(s + 255), addr |-> 256 + s]

\* CPU::push: ram.write(sp--, val)
push(m, s, val) ==
    [memory |-> RamWrite(m, s, val), sp |-> Wrap8(s + 255), addr |-> s]

\* a variant of pop that reads before it increments: ram.read(sp++)
pop_postincrement(m, s) ==
    [val |-> RamRead(m, s), sp |-> Wrap8(s + 1), addr |-> s]

\* CPU::pop: ram.read(++sp)
pop(m, s) ==
    [val |-> RamRead(m, Wrap8(s + 1)), sp |-> Wrap8(s + 1), addr |-> Wrap8(s + 1)]

\* a variant of MakeAddr with the bytes in the other order
MakeAddr_bigendian(low, high) == low * 256 + high

\* (static_cast<uint16_t>(high) << 8) | low
MakeAddr(low, high) == high * 256 + low

\* a variant of Opcode that takes the low nibble
Opcode_lownibble == RamRead(memory, pc) % 16

\* the decode of the byte at pc
Instr == RamRead(memory, pc)
Opcode == Instr \div 16
Operand == Instr % 16

-----------------------------------------------------------------------------
(* Register access.  regs has four elements, but the index is the low      *)
(* nibble of the instruction byte (0..15) or, for the second operand of    *)
(* ADD and SUB, a whole operand byte (0..255).  An index above 3 is an     *)
(* out-of-bounds array access: undefined behaviour.  The builds differ in  *)
(* what it does (the byte lands in another field of the CPU object, in     *)
(* padding, or the access is optimised away), so the model leaves it open: *)
(* a read yields any of the values below, a write hits any of the targets. *)

OobTargets == {"none", "pclo", "pchi", "sp", "zf", "running"}

OobValues(p) ==
    {p % 256, p \div 256, sp, IF zf THEN 1 ELSE 0} \cup (0 .. MaxGarbage)

\* the values a read of regs[k] can yield, with the program counter at p
RegValues(k, p) == IF k \in RegIdx THEN {regs[k]} ELSE OobValues(p)

\* the places a write of regs[k] can hit
RegTargets(k) == IF k \in RegIdx THEN {"reg"} ELSE OobTargets

\* a variant of SetReg that leaves zf alone
SetReg_keepzf(t, k, v, p) ==
    /\ regs' = IF t = "reg" THEN [regs EXCEPT ![k] = v] ELSE regs
    /\ pc' = CASE t = "pclo" -> MakeAddr(v, p \div 256)
               [] t = "pchi" -> MakeAddr(p % 256, v)
               [] OTHER -> p
    /\ sp' = IF t = "sp" THEN v ELSE sp
    /\ running' = IF t = "running" THEN v # 0 ELSE running
    /\ zf' = zf
    /\ wreg' = IF t = "reg" THEN k ELSE wreg

\* regs[k] = v, hitting target t, with the program counter at p; then
\* zf = (regs[k] == 0)
SetReg(t, k, v, p) ==
    /\ regs' = IF t = "reg" THEN [regs EXCEPT ![k] = v] ELSE regs
    /\ pc' = CASE t = "pclo" -> MakeAddr(v, p \div 256)
               [] t = "pchi" -> MakeAddr(p % 256, v)
               [] OTHER -> p
    /\ sp' = IF t = "sp" THEN v ELSE sp
    /\ running' = IF t = "running" THEN v # 0 ELSE running
    /\ zf' = (v = 0)
    /\ wreg' = IF t = "reg" THEN k ELSE wreg

-----------------------------------------------------------------------------
(* History. *)

\* what a step accesses: the RAM addresses it reads and writes, the disk
\* addresses it reads or writes, and the indices it uses on regs
Acc(rd, wr, dsk, idx) == [rd |-> rd, wr |-> wr, dsk |-> dsk, idx |-> idx]

NoStep == [op |-> "none", n |-> 0, at |-> 0, arg |-> 0, sp |-> 0, zf |-> FALSE,
           acc |-> Acc({}, {}, {}, {})]

\* the record of the instruction being executed: its mnemonic, its low
\* nibble, where it was fetched, its operand, sp and zf before it, and
\* what it accesses
Rec(op, arg, acc) ==
    [op |-> op, n |-> Operand, at |-> pc, arg |-> arg, sp |-> sp, zf |-> zf,
     acc |-> acc]

Log(op, arg, acc) == last' = Rec(op, arg, acc) /\ prev' = last

-----------------------------------------------------------------------------
(* The host calls CPU::execute: running = true, and the loop is entered.   *)

\* a variant of execute that starts every invocation at address 0
execute_resetspc ==
    /\ ~running
    /\ calls < MaxCalls
    /\ running' = TRUE
    /\ pc' = 0
    /\ calls' = calls + 1
    /\ UNCHANGED <<regs, sp, zf, memory, disk, consumed, output,
                   written, last, prev, wreg>>

execute ==
    /\ ~running
    /\ calls < MaxCalls
    /\ running' = TRUE
    /\ calls' = calls + 1
    /\ UNCHANGED <<regs, pc, sp, zf, memory, disk, consumed, output,
                   written, last, prev, wreg>>

-----------------------------------------------------------------------------
(* One action for each case of the switch.  Each is a whole turn of the    *)
(* loop: while (running), fetch, decode, the case.                         *)

\* case 0x0
NOP ==
    /\ running /\ Opcode = 0
    /\ LET f0 == fetch(memory, pc)
       IN  /\ pc' = f0.pc
           /\ Log("NOP", 0, Acc({f0.addr}, {}, {}, {}))
    /\ UNCHANGED <<regs, sp, zf, running, memory, disk, consumed, output,
                   written, calls, wreg>>

\* case 0x1: LOAD Rn, imm8
LOAD ==
    /\ running /\ Opcode = 1
    /\ LET f0 == fetch(memory, pc)
           imm == fetch(memory, f0.pc)
       IN  /\ \E t \in RegTargets(Operand) :
                  SetReg(t, Operand, imm.val, imm.pc)
           /\ Log("LOAD", imm.val, Acc({f0.addr, imm.addr}, {}, {}, {Operand}))
    /\ UNCHANGED <<memory, disk, consumed, output, written, calls>>

\* a variant of STORE that sets zf from the byte it stores
STORE_setszf ==
    /\ running /\ Opcode = 2
    /\ LET f0 == fetch(memory, pc)
           addr == fetch(memory, f0.pc)
       IN  /\ \E v \in RegValues(Operand, addr.pc) :
                  /\ memory' = RamWrite(memory, addr.val, v)
                  /\ zf' = (v = 0)
           /\ pc' = addr.pc
           /\ Log("STORE", addr.val,
                  Acc({f0.addr, addr.addr}, {addr.val}, {}, {Operand}))
    /\ UNCHANGED <<regs, sp, running, disk, consumed, output, written, calls, wreg>>

\* a variant of STORE that writes one address further on
STORE_nextaddr ==
    /\ running /\ Opcode = 2
    /\ LET f0 == fetch(memory, pc)
           addr == fetch(memory, f0.pc)
       IN  /\ \E v \in RegValues(Operand, addr.pc) :
                  memory' = RamWrite(memory, addr.val + 1, v)
           /\ pc' = addr.pc
           /\ Log("STORE", addr.val,
                  Acc({f0.addr, addr.addr}, {addr.val + 1}, {}, {Operand}))
    /\ UNCHANGED <<regs, sp, zf, running, disk, consumed, output, written, calls, wreg>>

\* case 0x2: STORE Rn, addr8
STORE ==
    /\ running /\ Opcode = 2
    /\ LET f0 == fetch(memory, pc)
           addr == fetch(memory, f0.pc)
       IN  /\ \E v \in RegValues(Operand, addr.pc) :
                  memory' = RamWrite(memory, addr.val, v)
           /\ pc' = addr.pc
           /\ Log("STORE", addr.val,
                  Acc({f0.addr, addr.addr}, {addr.val}, {}, {Operand}))
    /\ UNCHANGED <<regs, sp, zf, running, disk, consumed, output, written, calls, wreg>>

\* case 0x3: ADD Rn, Rm
ADD ==
    /\ running /\ Opcode = 3
    /\ LET f0 == fetch(memory, pc)
           reg_m == fetch(memory, f0.pc)
       IN  /\ \E a \in RegValues(Operand, reg_m.pc),
                 b \in RegValues(reg_m.val, reg_m.pc),
                 t \in RegTargets(Operand) :
                  SetReg(t, Operand, Wrap8(a + b), reg_m.pc)
           /\ Log("ADD", reg_m.val,
                  Acc({f0.addr, reg_m.addr}, {}, {}, {Operand, reg_m.val}))
    /\ UNCHANGED <<memory, disk, consumed, output, written, calls>>

\* case 0x4: SUB Rn, Rm
SUB ==
    /\ running /\ Opcode = 4
    /\ LET f0 == fetch(memory, pc)
           reg_m == fetch(memory, f0.pc)
       IN  /\ \E a \in RegValues(Operand, reg_m.pc),
                 b \in RegValues(reg_m.val, reg_m.pc),
                 t \in RegTargets(Operand) :
                  SetReg(t, Operand, Wrap8(a - b), reg_m.pc)
           /\ Log("SUB", reg_m.val,
                  Acc({f0.addr, reg_m.addr}, {}, {}, {Operand, reg_m.val}))
    /\ UNCHANGED <<memory, disk, consumed, output, written, calls>>

\* a variant of JMP that drops the high byte of the address
JMP_lowonly ==
    /\ running /\ Opcode = 5
    /\ LET f0 == fetch(memory, pc)
           low == fetch(memory, f0.pc)
           high == fetch(memory, low.pc)
       IN  /\ pc' = low.val
           /\ Log("JMP", MakeAddr(low.val, high.val),
                  Acc({f0.addr, low.addr, high.addr}, {}, {}, {}))
    /\ UNCHANGED <<regs, sp, zf, running, memory, disk, consumed, output,
                   written, calls, wreg>>

\* case 0x5: JMP addr16
JMP ==
    /\ running /\ Opcode = 5
    /\ LET f0 == fetch(memory, pc)
           low == fetch(memory, f0.pc)
           high == fetch(memory, low.pc)
       IN  /\ pc' = MakeAddr(low.val, high.val)
           /\ Log("JMP", MakeAddr(low.val, high.val),
                  Acc({f0.addr, low.addr, high.addr}, {}, {}, {}))
    /\ UNCHANGED <<regs, sp, zf, running, memory, disk, consumed, output,
                   written, calls, wreg>>

\* case 0x6: JZ addr16
JZ ==
    /\ running /\ Opcode = 6
    /\ LET f0 == fetch(memory, pc)
           low == fetch(memory, f0.pc)
           high == fetch(memory, low.pc)
           addr == MakeAddr(low.val, high.val)
       IN  /\ pc' = IF zf THEN addr ELSE high.pc
           /\ Log("JZ", addr, Acc({f0.addr, low.addr, high.addr}, {}, {}, {}))
    /\ UNCHANGED <<regs, sp, zf, running, memory, disk, consumed, output,
                   written, calls, wreg>>

\* a variant of CALL that pushes the low byte of the return address first
CALL_lowfirst ==
    /\ running /\ Opcode = 7
    /\ LET f0 == fetch(memory, pc)
           low == fetch(memory, f0.pc)
           high == fetch(memory, low.pc)
           addr == MakeAddr(low.val, high.val)
           p1 == push(memory, sp, high.pc % 256)
           p2 == push(p1.memory, p1.sp, (high.pc \div 256) % 256)
       IN  /\ memory' = p2.memory
           /\ sp' = p2.sp
           /\ pc' = addr
           /\ Log("CALL", addr,
                  Acc({f0.addr, low.addr, high.addr}, {p1.addr, p2.addr}, {}, {}))
    /\ UNCHANGED <<regs, zf, running, disk, consumed, output, written, calls, wreg>>

\* case 0x7: CALL addr16
CALL ==
    /\ running /\ Opcode = 7
    /\ LET f0 == fetch(memory, pc)
           low == fetch(memory, f0.pc)
           high == fetch(memory, low.pc)
           addr == MakeAddr(low.val, high.val)
           p1 == push(memory, sp, (high.pc \div 256) % 256)
           p2 == push(p1.memory, p1.sp, high.pc % 256)
       IN  /\ memory' = p2.memory
           /\ sp' = p2.sp
           /\ pc' = addr
           /\ Log("CALL", addr,
                  Acc({f0.addr, low.addr, high.addr}, {p1.addr, p2.addr}, {}, {}))
    /\ UNCHANGED <<regs, zf, running, disk, consumed, output, written, calls, wreg>>

\* case 0x8: RET
RET ==
    /\ running /\ Opcode = 8
    /\ LET f0 == fetch(memory, pc)
           low == pop(memory, sp)
           high == pop(memory, low.sp)
       IN  /\ sp' = high.sp
           /\ pc' = MakeAddr(low.val, high.val)
           /\ Log("RET", 0, Acc({f0.addr, low.addr, high.addr}, {}, {}, {}))
    /\ UNCHANGED <<regs, zf, running, memory, disk, consumed, output, written,
                   calls, wreg>>

\* the integers std::cin can deliver to IN
Tokens == {0, 7, 256, 300, -1}

\* case 0x9: IN Rn
IN_Rn ==
    /\ running /\ Opcode = 9
    /\ LET f0 == fetch(memory, pc)
       IN  /\ \E val \in Tokens :
                  /\ \E t \in RegTargets(Operand) :
                         SetReg(t, Operand, Wrap8(val), f0.pc)
                  /\ consumed' = Append(consumed, val)
           /\ Log("IN", 0, Acc({f0.addr}, {}, {}, {Operand}))
    /\ UNCHANGED <<memory, disk, output, written, calls>>

\* a variant of OUT that puts the value in front of the earlier output
OUT_Rn_prepends ==
    /\ running /\ Opcode = 10
    /\ LET f0 == fetch(memory, pc)
       IN  /\ \E v \in RegValues(Operand, f0.pc) :
                  output' = <<v>> \o output
           /\ pc' = f0.pc
           /\ Log("OUT", 0, Acc({f0.addr}, {}, {}, {Operand}))
    /\ UNCHANGED <<regs, sp, zf, running, memory, disk, consumed, written,
                   calls, wreg>>

\* case 0xA: OUT Rn
OUT_Rn ==
    /\ running /\ Opcode = 10
    /\ LET f0 == fetch(memory, pc)
       IN  /\ \E v \in RegValues(Operand, f0.pc) :
                  output' = Append(output, v)
           /\ pc' = f0.pc
           /\ Log("OUT", 0, Acc({f0.addr}, {}, {}, {Operand}))
    /\ UNCHANGED <<regs, sp, zf, running, memory, disk, consumed, written,
                   calls, wreg>>

\* case 0xB: DISK_READ Rn, addr16
DISK_READ ==
    /\ running /\ Opcode = 11
    /\ LET f0 == fetch(memory, pc)
           low == fetch(memory, f0.pc)
           high == fetch(memory, low.pc)
           addr == MakeAddr(low.val, high.val)
       IN  /\ \E t \in RegTargets(Operand) :
                  SetReg(t, Operand, DiskRead(disk, addr), high.pc)
           /\ Log("DISK_READ", addr,
                  Acc({f0.addr, low.addr, high.addr}, {}, {addr}, {Operand}))
    /\ UNCHANGED <<memory, disk, consumed, output, written, calls>>

\* case 0xC: DISK_WRITE Rn, addr16
DISK_WRITE ==
    /\ running /\ Opcode = 12
    /\ LET f0 == fetch(memory, pc)
           low == fetch(memory, f0.pc)
           high == fetch(memory, low.pc)
           addr == MakeAddr(low.val, high.val)
       IN  /\ \E v \in RegValues(Operand, high.pc) :
                  /\ disk' = DiskWrite(disk, addr, v)
                  /\ written' = [a \in DOMAIN written \cup {addr} |->
                                    IF a = addr THEN v ELSE written[a]]
           /\ pc' = high.pc
           /\ Log("DISK_WRITE", addr,
                  Acc({f0.addr, low.addr, high.addr}, {}, {addr}, {Operand}))
    /\ UNCHANGED <<regs, sp, zf, running, memory, consumed, output, calls, wreg>>

\* case 0xF
HALT ==
    /\ running /\ Opcode = 15
    /\ LET f0 == fetch(memory, pc)
       IN  /\ pc' = f0.pc
           /\ Log("HALT", 0, Acc({f0.addr}, {}, {}, {}))
    /\ running' = FALSE
    /\ UNCHANGED <<regs, sp, zf, memory, disk, consumed, output, written,
                   calls, wreg>>

\* a variant of Unknown that reports the opcode and keeps running
Unknown_keepsrunning ==
    /\ running /\ Opcode \notin (0 .. 12) \cup {15}
    /\ LET f0 == fetch(memory, pc)
       IN  /\ pc' = f0.pc
           /\ Log("unknown", 0, Acc({f0.addr}, {}, {}, {}))
    /\ UNCHANGED <<regs, sp, zf, running, memory, disk, consumed, output, written,
                   calls, wreg>>

\* default: the opcodes 0xD and 0xE
Unknown ==
    /\ running /\ Opcode \notin (0 .. 12) \cup {15}
    /\ LET f0 == fetch(memory, pc)
       IN  /\ pc' = f0.pc
           /\ Log("unknown", 0, Acc({f0.addr}, {}, {}, {}))
    /\ running' = FALSE
    /\ UNCHANGED <<regs, sp, zf, memory, disk, consumed, output, written,
                   calls, wreg>>

-----------------------------------------------------------------------------
(* The programs the host loads.  An instruction is the sequence of its     *)
(* bytes: the opcode in the high nibble of the first, then its operand     *)
(* bytes, a 16-bit address low byte first.                                 *)

Enc1(op, n) == <<op * 16 + n>>
Enc2(op, n, b) == <<op * 16 + n, b>>
Enc3(op, n, addr) == <<op * 16 + n, addr % 256, addr \div 256>>

\* where the host loads the program and points pc: in the clear, where the
\* operand fetches wrap past 0xFFFF, and under the top of the stack page
Bases == {512, 65534, 253}

\* jump and call targets: in the stack page, anywhere, and the last byte
JumpTargets == {254, 4660, 65535}

\* disk addresses
DiskAddrs == {0, 258, 65535}

\* register indices as the instruction byte can hold them: 0..3 are
\* registers, 8 is not
Nibbles == {0, 1, 3, 8}

Catalogue ==
    {Enc1(0, 0), Enc1(0, 9), Enc1(8, 0), Enc1(15, 0), Enc1(15, 7)}
    \cup {Enc2(1, n, v) : n \in Nibbles, v \in {0, 5, 255}}
    \cup {Enc2(2, n, a) : n \in {1, 8}, a \in {16, 255}}
    \cup {Enc2(3, n, m) : n \in {0, 2}, m \in {0, 1, 3, 200}}
    \cup {Enc2(3, 8, 1)}
    \cup {Enc2(4, n, m) : n \in {0, 1}, m \in {0, 1, 3, 200}}
    \cup {Enc2(4, 8, 1)}
    \cup {Enc3(op, 0, a) : op \in {5, 6, 7}, a \in JumpTargets}
    \cup {Enc1(op, n) : op \in {9, 10}, n \in {2, 8}}
    \cup {Enc3(op, n, a) : op \in {11, 12}, n \in {1, 8}, a \in {258, 65535}}
    \cup {Enc1(op, n) : op \in {13, 14}, n \in 0 .. 15}

\* longer programs: disk writes and reads in a row, with a halt or another
\* write between them; loads before a jump or another load; inputs and
\* outputs in a row
Scripts ==
    {Enc3(12, n, a) \o Enc3(11, m, a) : n \in {0, 8}, m \in {1, 3}, a \in DiskAddrs}
    \cup {Enc3(12, 0, a) \o Enc1(15, 0) \o Enc3(11, 2, a) : a \in DiskAddrs}
    \cup {Enc3(12, 0, a) \o Enc3(12, 1, b) \o Enc3(11, 3, a) :
              a \in DiskAddrs, b \in DiskAddrs}
    \cup {Enc2(1, 0, v) \o Enc3(6, 0, 4660) : v \in {0, 5}}
    \cup {Enc2(1, 0, 5) \o Enc2(1, 15, 0)}
    \cup {Enc1(9, 0) \o Enc1(10, 0) \o Enc1(10, 1),
          Enc1(9, 2) \o Enc1(9, 3) \o Enc1(10, 3)}

Programs == Catalogue \cup Scripts

\* bytes the memory holds besides the program: a RET at each jump target
Background == [a \in JumpTargets |-> 128]

\* the host's loop of ram.write(addr, byte)
RECURSIVE LoadProgram(_, _, _)
LoadProgram(m, addr, bytes) ==
    IF bytes = <<>> THEN m
    ELSE LoadProgram(RamWrite(m, addr, Head(bytes)), Wrap16(addr + 1), Tail(bytes))

\* what the registers hold when execute is called
RegFiles == {[i \in RegIdx |-> 0],
             [i \in RegIdx |-> <<200, 56, 1, 255>>[i + 1]]}

\* where sp stands when execute is called: as constructed (0xFF), where a
\* RET from there leaves it (1, from which the pushes of CALL wrap), and 0,
\* which a register write with index 6 leaves in the builds that lay sp
\* after regs and pc (there the wrap falls between the two pushes)
StackTops == {255, 1, 0}

\* the disk file: created zero-filled, or left by an earlier run
DiskImages == {Zeroed, [a \in {258} |-> 9]}

-----------------------------------------------------------------------------
(* The state when the host first calls execute: the program is loaded, pc  *)
(* points at it, and the CPU holds what its constructor or an earlier      *)
(* program left in it.                                                     *)

Init ==
    /\ regs \in RegFiles
    /\ sp \in StackTops
    /\ zf \in BOOLEAN
    /\ running = FALSE
    /\ \E base \in Bases, prog \in Programs :
           /\ pc = base
           /\ memory = LoadProgram(Background, base, prog)
    /\ disk \in DiskImages
    /\ consumed = <<>>
    /\ output = <<>>
    /\ calls = 0
    /\ steps = 0
    /\ written = Zeroed
    /\ last = NoStep
    /\ prev = NoStep
    /\ wreg = -1

\* the bound on the length of a run
Tick == steps < MaxSteps /\ steps' = steps + 1

Next ==
    \/ execute /\ UNCHANGED steps
    \/ Tick /\ NOP
    \/ Tick /\ LOAD
    \/ Tick /\ STORE
    \/ Tick /\ ADD
    \/ Tick /\ SUB
    \/ Tick /\ JMP
    \/ Tick /\ JZ
    \/ Tick /\ CALL
    \/ Tick /\ RET
    \/ Tick /\ IN_Rn
    \/ Tick /\ OUT_Rn
    \/ Tick /\ DISK_READ
    \/ Tick /\ DISK_WRITE
    \/ Tick /\ HALT
    \/ Tick /\ Unknown

Spec == Init /\ [][Next]_vars

-----------------------------------------------------------------------------
(* The scenario of the specification: the bytes 0x10 0x05 0x1F 0x00 at the *)
(* addresses 0..3 of a zeroed memory, pc = 0, the CPU as constructed.  The *)
(* run is not cut short: the loop turns for as long as running holds.      *)

ScenarioProgram == <<16, 5, 31, 0>>

ScenarioInit ==
    /\ regs = [i \in RegIdx |-> 0]
    /\ sp = 255
    /\ zf = FALSE
    /\ running = FALSE
    /\ pc = 0
    /\ memory = LoadProgram(Zeroed, 0, ScenarioProgram)
    /\ disk = Zeroed
    /\ consumed = <<>>
    /\ output = <<>>
    /\ calls = 0
    /\ steps = 0
    /\ written = Zeroed
    /\ last = NoStep
    /\ prev = NoStep
    /\ wreg = -1

\* one turn of the loop, whatever the opcode
Turn ==
    /\ running
    /\ \/ NOP \/ LOAD \/ STORE \/ ADD \/ SUB \/ JMP \/ JZ \/ CALL \/ RET
       \/ IN_Rn \/ OUT_Rn \/ DISK_READ \/ DISK_WRITE \/ HALT \/ Unknown
    /\ UNCHANGED steps

ScenarioNext ==
    \/ execute /\ UNCHANGED steps
    \/ Turn

\* the host calls execute, and the loop keeps turning while running holds
ScenarioSpec == ScenarioInit /\ [][ScenarioNext]_vars /\ WF_vars(ScenarioNext)

-----------------------------------------------------------------------------
(* CPU::push and CPU::pop on their own: from any stack pointer, pushes of  *)
(* test bytes and pops, in any order.                                      *)

TestBytes == {0, 171}

StackInit ==
    /\ regs = [i \in RegIdx |-> 0]
    /\ sp \in Bytes
    /\ zf = FALSE
    /\ running = FALSE
    /\ pc = 0
    /\ memory = Zeroed
    /\ disk = Zeroed
    /\ consumed = <<>>
    /\ output = <<>>
    /\ calls = 0
    /\ steps = 0
    /\ written = Zeroed
    /\ last = NoStep
    /\ prev = NoStep
    /\ wreg = -1

\* push(val)
Push ==
    /\ \E val \in TestBytes :
           /\ memory' = push(memory, sp, val).memory
           /\ sp' = push(memory, sp, val).sp
           /\ last' = [NoStep EXCEPT !.op = "push", !.arg = val, !.sp = sp,
                                     !.acc = Acc({}, {push(memory, sp, val).addr}, {}, {})]
    /\ prev' = last
    /\ UNCHANGED <<regs, pc, zf, running, disk, consumed, output, written, calls,
                   wreg>>

\* pop(), the byte it returns kept in the history
Pop ==
    /\ sp' = pop(memory, sp).sp
    /\ last' = [NoStep EXCEPT !.op = "pop", !.arg = pop(memory, sp).val, !.sp = sp,
                              !.acc = Acc({pop(memory, sp).addr}, {}, {}, {})]
    /\ prev' = last
    /\ UNCHANGED <<regs, pc, zf, running, memory, disk, consumed, output,
                   written, calls, wreg>>

StackNext ==
    \/ Tick /\ Push
    \/ Tick /\ Pop

StackSpec == StackInit /\ [][StackNext]_vars

-----------------------------------------------------------------------------
(* The properties.  Those about one instruction are stated on the step    *)
(* that executes it: from a state where running holds, the only steps are *)
(* turns of the loop, and the opcode decoded at pc names the instruction. *)

\* the operand bytes of the instruction at pc, and the address they spell
Arg1 == RamRead(memory, (pc + 1) % 65536)
Arg2 == RamRead(memory, (pc + 2) % 65536)
ArgAddr == Arg2 * 256 + Arg1

\* execute has been called and has returned
Halted == calls > 0 /\ ~running

\* C1: CALL addr16 followed by the RET fetched at addr16 leaves pc at the
\* byte after the 3-byte CALL and sp where it was before the CALL, for
\* every sp (the pushes wrap modulo 256) and every addr16 holding a RET.
C1_CallRetSymmetry ==
    (last.op = "RET" /\ prev.op = "CALL" /\ last.at = prev.arg)
        => (pc = (prev.at + 3) % 65536 /\ sp = prev.sp)

\* C1 witness: a CALL fetched at 0xFFFE with sp = 0, so that the return
\* address and the pushes both wrap, and its RET has returned.
C1_Witness ==
    /\ last.op = "RET" /\ prev.op = "CALL" /\ last.at = prev.arg
    /\ prev.at = 65534 /\ prev.sp = 0
    /\ pc = 1 /\ sp = 0

C3_UnknownOpcode ==
    [][(running /\ Opcode \in {13, 14})
          => /\ running' = FALSE
             /\ pc' = (pc + 1) % 65536
             /\ UNCHANGED <<regs, zf, sp, memory, disk>>]_vars

\* C3 witness: opcode 0xE with low nibble 15 has halted the engine, with
\* registers and zf that are not all zero.
C3_Witness ==
    /\ last.op = "unknown" /\ last.n = 15 /\ RamRead(memory, last.at) = 239
    /\ Halted /\ regs[0] = 200 /\ zf /\ last.zf

\* C4 (as claimed): a call of execute enters Running; a running step
\* halts the engine if and only if it decodes HALT or an unrecognized
\* opcode; once Halted, nothing is fetched or executed until execute is
\* called again.
C4_StateMachine ==
    [][/\ ~running => (running' /\ pc' = pc /\ last' = last)
       /\ running => ((~running') <=> Opcode \in {13, 14, 15})]_vars

\* C5: JZ addr16 leaves pc at addr16 if zf was set and at the byte after
\* its three bytes otherwise, and changes no register, not zf, not sp, not
\* the memory and not the disk.
C5_JZ ==
    [][(running /\ Opcode = 6)
          => /\ pc' = IF zf THEN ArgAddr ELSE (pc + 3) % 65536
             /\ UNCHANGED <<regs, zf, sp, memory, disk>>]_vars

\* C5 witness: a JZ fetched at 0xFFFE with zf set has jumped to 0x1234.
C5_Witness ==
    /\ last.op = "JZ" /\ last.at = 65534 /\ last.zf
    /\ last.arg = 4660 /\ pc = 4660 /\ zf

\* the sum and the difference of two bytes, wrapped into a byte
WrappedSum(a, b) == IF a + b < 256 THEN a + b ELSE a + b - 256
WrappedDiff(a, b) == IF a >= b THEN a - b ELSE a - b + 256

\* C6: for registers n and m (n = m included), ADD n,m leaves (a+b) mod 256
\* and SUB n,m leaves (a-b) mod 256 in register n, wrapping, and zf says
\* whether that result is 0.
C6_AddSubWrap ==
    [][(running /\ Opcode \in {3, 4} /\ Operand \in RegIdx /\ Arg1 \in RegIdx)
          => /\ regs'[Operand] =
                   IF Opcode = 3
                   THEN WrappedSum(regs[Operand], regs[Arg1])
                   ELSE WrappedDiff(regs[Operand], regs[Arg1])
             /\ zf' = (regs'[Operand] = 0)]_vars

\* C6 witness: ADD R0,R0 from R0 = 200 has left R0 = 144 with zf false.
C6_Witness ==
    /\ last.op = "ADD" /\ last.n = 0 /\ last.arg = 0
    /\ steps = 1 /\ regs[0] = 144 /\ regs[1] = 56 /\ ~zf

\* C7: a DISK_READ Rm,a that follows a DISK_WRITE to a, in the same call
\* of execute or a later one, leaves in Rm the byte the last DISK_WRITE
\* to a stored, and zf says whether that byte is 0.
C7_DiskRoundTrip ==
    (last.op = "DISK_READ" /\ last.n \in RegIdx /\ last.arg \in DOMAIN written)
        => /\ regs[last.n] = written[last.arg]
           /\ zf = (written[last.arg] = 0)

\* C7 witness: a byte written in the first call of execute has been read
\* back in the second, after a HALT.
C7_Witness ==
    /\ last.op = "DISK_READ" /\ prev.op = "HALT" /\ calls = 2
    /\ last.arg = 65535 /\ last.arg \in DOMAIN written
    /\ written[last.arg] = 200 /\ regs[last.n] = 200 /\ ~zf

\* C8: a step that decodes anything but LOAD, ADD, SUB, IN or DISK_READ
\* (STORE, OUT, DISK_WRITE, JMP, JZ, CALL, RET, NOP, HALT, or an
\* unrecognized opcode) leaves zf as it was.
C8_ZeroFlagFrame ==
    [][(running /\ Opcode \notin {1, 3, 4, 9, 11}) => zf' = zf]_vars

\* C8 witness: a STORE of a zero byte has executed with zf false, and zf
\* is still false.
C8_Witness ==
    /\ last.op = "STORE" /\ last.n = 1 /\ regs[1] = 0
    /\ RamRead(memory, last.arg) = 0 /\ ~last.zf /\ ~zf

\* C9: LOAD n,v with n a register leaves v in register n, zf = (v = 0) and
\* pc advanced by 2, and changes no other register, not sp, not the
\* memory and not the disk.
C9_Load ==
    [][(running /\ Opcode = 1 /\ Operand \in RegIdx)
          => /\ regs' = [regs EXCEPT ![Operand] = Arg1]
             /\ zf' = (Arg1 = 0)
             /\ pc' = (pc + 2) % 65536
             /\ UNCHANGED <<sp, memory, disk>>]_vars

\* C9 witness: LOAD R3,0 fetched at 0xFFFE has cleared a non-zero R3 and
\* set zf, with pc wrapped to 0.
C9_Witness ==
    /\ last.op = "LOAD" /\ last.n = 3 /\ last.arg = 0 /\ last.at = 65534
    /\ ~last.zf /\ zf /\ regs[3] = 0 /\ regs[0] = 200 /\ pc = 0

\* C10: push(v) writes v at memory[sp] and then decrements sp modulo 256;
\* pop increments sp modulo 256 and then returns memory[sp]; so a push
\* followed at once by a pop returns the pushed byte and restores sp.
C10_PushPop ==
    /\ last.op = "push"
           => /\ RamRead(memory, last.sp) = last.arg
              /\ sp = (IF last.sp = 0 THEN 255 ELSE last.sp - 1)
    /\ last.op = "pop"
           => /\ sp = (IF last.sp = 255 THEN 0 ELSE last.sp + 1)
              /\ last.arg = RamRead(memory, sp)
    /\ (last.op = "pop" /\ prev.op = "push")
           => (last.arg = prev.arg /\ sp = prev.sp)

\* C10 witness: from sp = 0 a push has wrapped sp to 0xFF and the pop
\* after it has returned the byte and brought sp back to 0.
C10_Witness ==
    /\ last.op = "pop" /\ prev.op = "push"
    /\ prev.sp = 0 /\ last.sp = 255 /\ sp = 0
    /\ prev.arg = 171 /\ last.arg = 171


\* C11: pc stays in 0..65535, every RAM address execute reads or writes
\* (fetch, STORE, push, pop) is below 65536 and so below RAM_SIZE, and every
\* disk address is below 65536 and so below DISK_SIZE: no assert of the
\* stores can fail.
C11_AddressBounds ==
    /\ pc \in 0 .. 65535
    /\ 65536 < RAM_SIZE /\ 65536 < DISK_SIZE
    /\ \A a \in last.acc.rd \cup last.acc.wr : a >= 0 /\ a < 65536 /\ a < RAM_SIZE
    /\ \A a \in last.acc.dsk : a >= 0 /\ a < 65536 /\ a < DISK_SIZE

\* C11 witness: a DISK_WRITE fetched at 0xFFFE has read its last operand
\* byte at address 0 and written the disk at 0xFFFF.
C11_Witness ==
    /\ last.op = "DISK_WRITE" /\ last.at = 65534
    /\ last.acc.rd = {65534, 65535, 0} /\ last.acc.dsk = {65535}
    /\ pc = 1

\* C12: JMP leaves pc = high * 256 + low, low being the operand byte at
\* the lower address, and changes no register, not zf, not sp, not the
\* memory and not the disk; JZ, CALL, DISK_READ and DISK_WRITE use the
\* address assembled the same way.
C12_JmpLittleEndian ==
    [][/\ (running /\ Opcode = 5)
             => /\ pc' = Arg2 * 256 + Arg1
                /\ UNCHANGED <<regs, zf, sp, memory, disk>>
       /\ (running /\ Opcode \in {6, 7, 11, 12})
             => last'.arg = Arg2 * 256 + Arg1
       /\ (running /\ (Opcode = 7 \/ (Opcode = 6 /\ zf)))
             => pc' = Arg2 * 256 + Arg1
       /\ (running /\ Opcode \in {11, 12})
             => last'.acc.dsk = {Arg2 * 256 + Arg1}
       /\ (running /\ Opcode = 11 /\ Operand \in RegIdx)
             => regs'[Operand] = StoreRead(disk, Arg2 * 256 + Arg1)
       /\ (running /\ Opcode = 12 /\ Operand \in RegIdx)
             => StoreRead(disk', Arg2 * 256 + Arg1) = regs[Operand]]_vars

\* C12 witness: a JMP fetched at 0xFFFE, with 0x34 at 0xFFFF and 0x12 at 0,
\* has jumped to 0x1234.
C12_Witness ==
    /\ last.op = "JMP" /\ last.at = 65534
    /\ RamRead(memory, 65535) = 52 /\ RamRead(memory, 0) = 18
    /\ pc = 4660


\* the byte an integer token leaves when masked with 0xFF
ByteOf(t) == CHOOSE r \in 0 .. 255 : \E q \in -2 .. 2 : t = 256 * q + r

\* C13: each IN Rn takes exactly one token t from the input and leaves
\* t mod 256 in Rn with zf = (Rn = 0); each OUT Rn adds exactly one value,
\* that of Rn, at the end of the output and changes no register, not zf,
\* not sp, not the memory and not the disk; nothing else touches the
\* channels.
C13_Console ==
    [][/\ (running /\ Opcode = 9)
             => /\ Len(consumed') = Len(consumed) + 1
                /\ SubSeq(consumed', 1, Len(consumed)) = consumed
                /\ output' = output
                /\ Operand \in RegIdx
                      => /\ regs'[Operand] = ByteOf(consumed'[Len(consumed')])
                         /\ zf' = (regs'[Operand] = 0)
       /\ (running /\ Opcode = 10)
             => /\ Len(output') = Len(output) + 1
                /\ SubSeq(output', 1, Len(output)) = output
                /\ consumed' = consumed
                /\ Operand \in RegIdx => output'[Len(output')] = regs[Operand]
                /\ UNCHANGED <<regs, zf, sp, memory, disk>>
       /\ (running /\ Opcode \notin {9, 10})
             => (consumed' = consumed /\ output' = output)]_vars

\* C13 witness: IN R0 has read 300 and left 44, and OUT R0 and OUT R1
\* have printed 44 and then 56.
C13_Witness ==
    /\ consumed = <<300>> /\ output = <<44, 56>>
    /\ last.op = "OUT" /\ prev.op = "OUT"
    /\ regs[0] = 44 /\ regs[1] = 56 /\ ~zf

\* C14: once a flag-setting instruction has written a register, zf is true
\* exactly when the register written most recently holds 0.
C14_ZeroFlagInvariant ==
    wreg \in RegIdx => (zf <=> regs[wreg] = 0)

\* the length the encoding gives the instruction at pc
InstrLength ==
    CASE Opcode \in {1, 2, 3, 4} -> 2
      [] Opcode \in {6, 11, 12} -> 3
      [] OTHER -> 1

\* C15: an instruction that does not transfer control leaves pc at
\* (p + length) mod 65536, with length 1 for NOP, IN, OUT, HALT and an
\* unknown opcode, 2 for LOAD, STORE, ADD and SUB, 3 for DISK_READ,
\* DISK_WRITE and a JZ not taken, and reads its operand bytes at
\* (p + 1) mod 65536 and (p + 2) mod 65536.
C15_InstructionLength ==
    [][(running /\ Opcode \notin {5, 7, 8} /\ (Opcode = 6 => ~zf))
          => /\ pc' = (pc + InstrLength) % 65536
             /\ last'.acc.rd =
                    {(pc + i) % 65536 : i \in 0 .. InstrLength - 1}]_vars

\* the addresses at which two memories can differ
Touched(m1, m2) == DOMAIN m1 \cup DOMAIN m2

\* C16: CALL at p with sp = s leaves the high byte of (p + 3) mod 65536 in
\* memory[s] and its low byte in memory[(s - 1) mod 256], sp at
\* (s - 2) mod 256 and pc at the 16-bit operand, and changes nothing else;
\* RET takes the low byte from the first address it pops, (s + 1) mod 256,
\* and the high byte from the second, (s + 2) mod 256.
C16_CallStackLayout ==
    [][/\ (running /\ Opcode = 7)
             => LET ret == (pc + 3) % 65536
                    hi == sp
                    lo == (sp + 255) % 256
                IN  /\ RamRead(memory', hi) = ret \div 256
                    /\ RamRead(memory', lo) = ret % 256
                    /\ sp' = (sp + 254) % 256
                    /\ pc' = Arg2 * 256 + Arg1
                    /\ \A a \in Touched(memory, memory') \ {hi, lo} :
                           RamRead(memory', a) = RamRead(memory, a)
                    /\ UNCHANGED <<regs, zf, running, disk, consumed, output>>
       /\ (running /\ Opcode = 8)
             => /\ pc' = RamRead(memory, (sp + 2) % 256) * 256
                             + RamRead(memory, (sp + 1) % 256)
                /\ sp' = (sp + 2) % 256
                /\ UNCHANGED <<regs, zf, running, memory, disk, consumed,
                               output>>]_vars

\* C16 witness: a CALL at 512 with sp = 0 has left 0x02 at address 0 and
\* 0x03 at address 255, sp = 254 and pc at its operand 0x1234.
C16_Witness ==
    /\ last.op = "CALL" /\ last.at = 512 /\ last.sp = 0
    /\ RamRead(memory, 0) = 2 /\ RamRead(memory, 255) = 3
    /\ sp = 254 /\ pc = 4660

\* C17: STORE Rn, addr8 sets memory[addr8] to Rn and changes no register,
\* not zf, not sp, no other memory byte and not the disk.
C17_StoreFrame ==
    [][(running /\ Opcode = 2)
          => /\ Operand \in RegIdx => RamRead(memory', Arg1) = regs[Operand]
             /\ \A a \in Touched(memory, memory') \ {Arg1} :
                    RamRead(memory', a) = RamRead(memory, a)
             /\ UNCHANGED <<regs, zf, sp, disk>>]_vars

\* C17 witness: STORE R1, 16 has left R1 = 56 at address 16 with the
\* registers, zf and sp it found.
C17_Witness ==
    /\ last.op = "STORE" /\ last.n = 1 /\ last.arg = 16
    /\ RamRead(memory, 16) = 56 /\ regs[1] = 56
    /\ zf = last.zf /\ sp = last.sp

\* C18: every register read or write of a step uses an index in 0..3.
C18_RegisterFileSafety ==
    \A i \in last.acc.idx : i \in RegIdx

\* C19: every memory write of a step targets an address in 0..255, and no
\* step changes a memory byte at an address of 256 or more, so each such
\* byte keeps the value it had when execute was invoked.
C19_WriteConfinement ==
    /\ [](last.acc.wr \subseteq 0 .. 255)
    /\ [][\A a \in Touched(memory, memory') :
              a >= 256 => RamRead(memory', a) = RamRead(memory, a)]_vars

\* C19 witness: a CALL at 65534 with sp = 0 has written addresses 0 and
\* 255, and the bytes of the program at 65534 and 65535 and the byte at
\* 0x1234 are as loaded.
C19_Witness ==
    /\ last.op = "CALL" /\ last.at = 65534 /\ last.acc.wr = {0, 255}
    /\ RamRead(memory, 65534) = 112 /\ RamRead(memory, 4660) = 128
    /\ RamRead(memory, 255) = 1

\* C20: invoking execute sets running and changes nothing else of the
\* machine, so after a HALT or an unknown opcode at p a further invocation
\* fetches first at (p + 1) mod 65536, with the registers, zf, sp, memory
\* and disk as the earlier invocation left them.
C20_CarryOver ==
    /\ [][~running => /\ running'
                      /\ UNCHANGED <<regs, pc, sp, zf, memory, disk,
                                     consumed, output>>]_vars
    /\ []((~running /\ last.op \in {"HALT", "unknown"})
             => pc = (last.at + 1) % 65536)
    /\ [][(running /\ last.op \in {"HALT", "unknown"})
             => last'.at = (last.at + 1) % 65536]_vars

\* C20 witness: the first invocation wrote R0 = 200 to the disk and
\* halted; the second has read the byte back into R2 with the instruction
\* right after the HALT.
C20_Witness ==
    /\ calls = 2 /\ prev.op = "HALT" /\ last.op = "DISK_READ"
    /\ last.at = (prev.at + 1) % 65536
    /\ regs[0] = 200 /\ regs[2] = 200 /\ StoreRead(disk, last.arg) = 200

====
